---- MODULE Spec2Model ----
(***************************************************************************)
(* Model of the Token component of revoke.cash (src/src/Token.tsx): the    *)
(* discovery of a token's allowances (loadData) and the update protocol    *)
(* (revoke / update) with its three strategies.                            *)
(*                                                                         *)
(* Strings are sequences of one-character strings, so that parsing and     *)
(* formatting are computed digit by digit as the code computes them.       *)
(* Big numbers are naturals.  An address is a small natural; an event's    *)
(* topics[2] is a 32-byte word [pad, addr]: 12 high bytes and the 20       *)
(* address bytes.                                                          *)
(***************************************************************************)
EXTENDS Integers, Sequences, FiniteSets, TLC

VARIABLES
  token,          \* props.token: [decimals, totalSupply, approvals] or NoToken
  inputAddress,   \* props.inputAddress, or NoAddress
  state,          \* this.state: [allowances, icon, loading]
  ledger,         \* the token contract's allowance(owner, spender) mapping
  runs,           \* the loadData invocations in flight, oldest first
  upd,            \* the update invocation (idle, in flight, or ended)
  twin,           \* a second update invocation, driven by the same responses
  mounted,        \* whether componentDidMount has run
  obs,            \* what the ledger did around the update invocation
  cnt             \* [updates, external, changes]: counters that bound the behaviours

vars == <<token, inputAddress, state, ledger, runs, upd, twin, mounted, obs, cnt>>

-----------------------------------------------------------------------------
(* Bounds                                                                  *)

MaxPad == 1          \* values of the 12 high bytes of a topic: 0..MaxPad
NumSpenders == 3     \* spender addresses 1..NumSpenders
MaxUpdates == 1      \* update / revoke invocations per behaviour
MaxExternal == 1     \* ledger changes made by other parties per behaviour
MaxEventsD == 3      \* length of token.approvals in the discovery model
MaxDecimalsD == 4    \* token.decimals in the discovery model: 0..MaxDecimalsD
MaxTextLen == 4      \* length of a text typed into the NewAllowance input
MaxChanges == 2      \* changes of the inputAddress prop per behaviour

NoToken == [absent |-> "token"]
NoAddress == "NoAddress"
NoName == "NoName"
NoIcon == "NoIcon"
NoTx == [absent |-> "tx"]
undefined == [absent |-> "allowance"]
pending == [absent |-> "pending"]

Owners == {"alice", "bob"}
signerAddress == "alice"
Spenders == 1..NumSpenders
Topics == [pad : 0..MaxPad, addr : Spenders]

-----------------------------------------------------------------------------
(* Strings and numbers                                                     *)

Digits == <<"0", "1", "2", "3", "4", "5", "6", "7", "8", "9">>

RECURSIVE Pow10(_)
Pow10(n) == IF n = 0 THEN 1 ELSE 10 * Pow10(n - 1)

DigitVal(c) == (CHOOSE i \in 1..10 : Digits[i] = c) - 1

\* BigNumber.toString(): the decimal digits of n, no leading zeros
RECURSIVE NatToStr(_)
NatToStr(n) == IF n < 10 THEN <<Digits[n + 1]>>
               ELSE Append(NatToStr(n \div 10), Digits[(n % 10) + 1])

\* bigNumberify(s) of a string of decimal digits (leading zeros allowed)
RECURSIVE bigNumberify(_)
bigNumberify(s) == IF s = <<>> THEN 0
                   ELSE 10 * bigNumberify(SubSeq(s, 1, Len(s) - 1)) + DigitVal(s[Len(s)])

\* String.prototype.split('.')
RECURSIVE split(_)
split(s) == IF \A i \in 1..Len(s) : s[i] # "."
            THEN <<s>>
            ELSE LET k == CHOOSE i \in 1..Len(s) :
                            s[i] = "." /\ \A j \in 1..(i - 1) : s[j] # "."
                 IN <<SubSeq(s, 1, k - 1)>> \o split(SubSeq(s, k + 1, Len(s)))

\* String.prototype.padEnd(n, '0')
RECURSIVE padEnd(_, _)
padEnd(s, n) == IF Len(s) >= n THEN s ELSE padEnd(Append(s, "0"), n)

\* String.prototype.slice(0, n)
slice0(s, n) == SubSeq(s, 1, IF n < Len(s) THEN n ELSE Len(s))

\* Number.prototype.toFixed(3) of the quotient num / den: the nearest
\* multiple of 1/1000, the larger one when two are equally near.  The double
\* that JavaScript divides into is the quotient itself up to 2^-53, which
\* decides the rounding unless the quotient lies half-way; of the half-way
\* quotients only 0.0005 is reached here, and its double lies above it.
\* toFixed(3) cutting the digits after the third instead of rounding
toFixed3Truncating(num, den) ==
  LET n == (1000 * num) \div den
      frac == n % 1000
  IN NatToStr(n \div 1000) \o <<".">> \o
     <<Digits[(frac \div 100) + 1], Digits[((frac \div 10) % 10) + 1], Digits[(frac % 10) + 1]>>

toFixed3(num, den) ==
  LET n == (2000 * num + den) \div (2 * den)
      frac == n % 1000
  IN NatToStr(n \div 1000) \o <<".">> \o
     <<Digits[(frac \div 100) + 1], Digits[((frac \div 10) % 10) + 1], Digits[(frac % 10) + 1]>>

\* toFloat without the division by 10 ** decimals
toFloatUnscaled(n, tok) == toFixed3(n, 1)

toFloat(n, tok) == toFixed3(n, Pow10(tok.decimals))

\* fromFloat padding a text without a point to decimals characters in all
fromFloatPadsTo(s, tok) ==
  LET decimals == tok.decimals
      sides == split(s)
  IN IF Len(sides) = 1 THEN padEnd(s, decimals)
     ELSE IF Len(sides) > 2 THEN <<"0">>
     ELSE IF Len(sides[2]) > decimals
          THEN sides[1] \o slice0(sides[2], decimals)
          ELSE sides[1] \o padEnd(sides[2], decimals)

fromFloat(s, tok) ==
  LET decimals == tok.decimals
      sides == split(s)
  IN IF Len(sides) = 1 THEN padEnd(s, decimals + Len(s))
     ELSE IF Len(sides) > 2 THEN <<"0">>
     ELSE IF Len(sides[2]) > decimals
          THEN sides[1] \o slice0(sides[2], decimals)
          ELSE sides[1] \o padEnd(sides[2], decimals)

Unlimited == <<"U", "n", "l", "i", "m", "i", "t", "e", "d">>

\* formatAllowance without its comparison with the total supply
formatAllowanceUncapped(allowance, tok) == toFloat(bigNumberify(allowance), tok)

formatAllowance(allowance, tok) ==
  LET allowanceBN == bigNumberify(allowance)
      totalSupplyBN == tok.totalSupply
  IN IF allowanceBN > totalSupplyBN THEN Unlimited
     ELSE toFloat(allowanceBN, tok)

-----------------------------------------------------------------------------
(* Discovery: loadData                                                     *)

\* hexDataSlice(topics[2], 12) and getAddress: the 20 address bytes of the topic
hexDataSlice(topic) == topic.addr

\* provider.lookupAddress: the reverse-name registry of the environment
lookupAddress(spender) == IF spender = 1 THEN "one.eth" ELSE NoName

\* addressToAppName: the application-name list of the environment
addressToAppName(spender) == IF spender = 2 THEN "App Two" ELSE NoName

\* compareBN(a, b) on decimal strings: the sign of a - b as big integers
compareBN(a, b) ==
  LET diff == bigNumberify(a) - bigNumberify(b)
  IN IF diff = 0 THEN 0 ELSE IF diff < 0 THEN -1 ELSE 1

\* token.approvals.filter((approval, i) => i === findIndex(same topics[2]))
RECURSIVE dedup(_, _)
dedup(approvals, i) ==
  IF i > Len(approvals) THEN <<>>
  ELSE LET findIndex == CHOOSE j \in 1..Len(approvals) :
                          /\ approvals[j] = approvals[i]
                          /\ \A k \in 1..(j - 1) : approvals[k] # approvals[i]
       IN (IF i = findIndex THEN <<approvals[i]>> ELSE <<>>) \o dedup(approvals, i + 1)

\* the comparator without its factor -1: ascending order
sortCompareAscending(a, b) == compareBN(a.allowance, b.allowance)

\* the comparator handed to sort
sortCompare(a, b) == -1 * compareBN(a.allowance, b.allowance)

\* Array.prototype.sort with a comparator: a stable sort (ECMAScript 2019),
\* computed by insertion
insert(s, x) ==
  LET after == {p \in 1..Len(s) : sortCompare(s[p], x) > 0}
      pos == IF after = {} THEN Len(s) + 1
             ELSE CHOOSE p \in after : \A q \in after : p <= q
  IN SubSeq(s, 1, pos - 1) \o <<x>> \o SubSeq(s, pos, Len(s))

RECURSIVE sort(_)
sort(s) == IF s = <<>> THEN <<>>
           ELSE insert(sort(SubSeq(s, 1, Len(s) - 1)), s[Len(s)])

\* .filter(allowance => allowance !== undefined)
filterDefined(s) == SelectSeq(s, LAMBDA x : x # undefined)

\* the body of the map callback once the allowance query has answered amount
spenderResult(topic, amount, tok) ==
  LET spender == hexDataSlice(topic)
      allowance == NatToStr(amount)
  IN IF formatAllowance(allowance, tok) = <<"0", ".", "0", "0", "0">>
     THEN undefined
     ELSE [spender |-> spender,
           ensSpender |-> lookupAddress(spender),
           spenderAppName |-> addressToAppName(spender),
           allowance |-> allowance,
           newAllowance |-> <<"0">>]

icon == "logo.png"

\* the tail of loadData, after Promise.all has resolved
finishLoad(results) ==
  [allowances |-> sort(filterDefined(results)), icon |-> icon, loading |-> FALSE]

\* loadData showing the spinner again while it waits
loadDataSetsLoading(address, st, rs) ==
  IF token = NoToken THEN [state |-> st, runs |-> rs]
  ELSE IF address = NoAddress THEN [state |-> st, runs |-> rs]
  ELSE LET approvals == dedup(token.approvals, 1)
       IN IF approvals = <<>>
          THEN [state |-> finishLoad(<<>>), runs |-> rs]
          ELSE [state |-> [st EXCEPT !.loading = TRUE],
                runs |-> Append(rs, [owner |-> address,
                                     approvals |-> approvals,
                                     res |-> [i \in 1..Len(approvals) |-> pending]])]

\* loadData without the test of line 50
loadDataAnyAddress(address, st, rs) ==
  IF token = NoToken THEN [state |-> st, runs |-> rs]
  ELSE LET approvals == dedup(token.approvals, 1)
       IN IF approvals = <<>>
          THEN [state |-> finishLoad(<<>>), runs |-> rs]
          ELSE [state |-> st,
                runs |-> Append(rs, [owner |-> address,
                                     approvals |-> approvals,
                                     res |-> [i \in 1..Len(approvals) |-> pending]])]

\* a call of loadData while this.props.inputAddress is address, in component
\* state st with in-flight runs rs: its synchronous part, and its tail too
\* when there is nothing to wait for
loadData(address, st, rs) ==
  IF token = NoToken THEN [state |-> st, runs |-> rs]
  ELSE IF address = NoAddress THEN [state |-> st, runs |-> rs]
  ELSE LET approvals == dedup(token.approvals, 1)
       IN IF approvals = <<>>
          THEN [state |-> finishLoad(<<>>), runs |-> rs]
          ELSE [state |-> st,
                runs |-> Append(rs, [owner |-> address,
                                     approvals |-> approvals,
                                     res |-> [i \in 1..Len(approvals) |-> pending]])]

RemoveAt(s, k) == SubSeq(s, 1, k - 1) \o SubSeq(s, k + 1, Len(s))

componentDidMount ==
  /\ ~mounted
  /\ mounted' = TRUE
  /\ LET r == loadData(inputAddress, state, runs)
     IN state' = r.state /\ runs' = r.runs
  /\ UNCHANGED <<token, inputAddress, ledger, upd, twin, obs, cnt>>

\* the parent renders the component with another inputAddress, address:
\* componentDidUpdate sees that the prop differs and calls loadData
componentDidUpdate(address) ==
  /\ mounted
  /\ cnt.changes < MaxChanges
  /\ address # inputAddress
  /\ inputAddress' = address
  /\ LET r == loadData(address, state, runs)
     IN state' = r.state /\ runs' = r.runs
  /\ cnt' = [cnt EXCEPT !.changes = @ + 1]
  /\ UNCHANGED <<token, ledger, upd, twin, mounted, obs>>

\* the allowance query of spender i of run k answers; when it is the last
\* one outstanding, Promise.all resolves and loadData sets the state
FetchResolves(k, i) ==
  /\ k \in 1..Len(runs)
  /\ i \in 1..Len(runs[k].approvals)
  /\ runs[k].res[i] = pending
  /\ LET run == runs[k]
         amount == ledger[run.owner][hexDataSlice(run.approvals[i])]
         res == [run.res EXCEPT ![i] = spenderResult(run.approvals[i], amount, token)]
     IN IF \E j \in 1..Len(res) : res[j] = pending
        THEN /\ runs' = [runs EXCEPT ![k].res = res]
             /\ state' = state
        ELSE /\ runs' = RemoveAt(runs, k)
             /\ state' = finishLoad(res)
  /\ UNCHANGED <<token, inputAddress, ledger, upd, twin, mounted, obs, cnt>>

\* a failing query publishing the results that have arrived so far
FetchFailsPublishes(k, i) ==
  /\ k \in 1..Len(runs)
  /\ i \in 1..Len(runs[k].approvals)
  /\ runs[k].res[i] = pending
  /\ runs' = RemoveAt(runs, k)
  /\ state' = finishLoad(SelectSeq(runs[k].res, LAMBDA x : x # pending))
  /\ UNCHANGED <<token, inputAddress, ledger, upd, twin, mounted, obs, cnt>>

\* the allowance query of spender i of run k fails: Promise.all rejects,
\* loadData throws
FetchFails(k, i) ==
  /\ k \in 1..Len(runs)
  /\ i \in 1..Len(runs[k].approvals)
  /\ runs[k].res[i] = pending
  /\ runs' = RemoveAt(runs, k)
  /\ UNCHANGED <<token, inputAddress, state, ledger, upd, twin, mounted, obs, cnt>>

\* the allowance query of spender i of run k has answered an amount that is
\* not filtered out, and provider.lookupAddress(spender) rejects: the
\* callback rejects at line 69, Promise.all rejects, loadData throws
LookupFails(k, i) ==
  /\ k \in 1..Len(runs)
  /\ i \in 1..Len(runs[k].approvals)
  /\ runs[k].res[i] = pending
  /\ spenderResult(runs[k].approvals[i],
                   ledger[runs[k].owner][hexDataSlice(runs[k].approvals[i])],
                   token) # undefined
  /\ runs' = RemoveAt(runs, k)
  /\ UNCHANGED <<token, inputAddress, state, ledger, upd, twin, mounted, obs, cnt>>

-----------------------------------------------------------------------------
(* Update protocol: revoke / update                                        *)

Reverted == "Reverted"              \* an error whose code is -32000
CallResponses == {"ok", Reverted, "Other"}
WaitResponses == {"ok", "TransportError"}

\* no update has been invoked
Idle == [pc |-> "idle", entry |-> "update", allowance |-> undefined,
         bnNew |-> 0, bnOld |-> 0, tx |-> NoTx, log |-> <<>>, resp |-> <<>>,
         returned |-> "pending"]

Call(op, arg) == [op |-> op, arg |-> arg]

\* revoke handing the allowance on with the text of its input
revokeKeepsText(allowance) == allowance

\* the allowance object that revoke hands to update
revoke(allowance) == [allowance EXCEPT !.newAllowance = <<"0">>]

\* update(allowance) up to its first await: the direct approve is issued.
\* returned is what the command called by the user has delivered to its
\* caller so far: revoke does not await update, and has completed already.
updateStart(entry, allowance, tok) ==
  LET bnNew == bigNumberify(fromFloat(allowance.newAllowance, tok))
      bnOld == bigNumberify(allowance.allowance)
  IN [pc |-> "approve", entry |-> entry, allowance |-> allowance,
      bnNew |-> bnNew, bnOld |-> bnOld, tx |-> NoTx,
      log |-> <<Call("approve", bnNew)>>, resp |-> <<>>,
      returned |-> IF entry = "revoke" THEN "completed" ELSE "pending"]

\* the increase / decrease call with the difference taken the other way
deltaCallSwapped(u) ==
  LET sub == u.bnNew - u.bnOld
  IN IF sub >= 0 THEN Call("decreaseApproval", sub)
     ELSE Call("increaseApproval", -sub)

\* the second strategy increasing by zero when the amounts are equal
deltaCallZeroIncreases(u) ==
  LET sub == u.bnOld - u.bnNew
  IN IF sub > 0 THEN Call("decreaseApproval", sub)
     ELSE Call("increaseApproval", -sub)

\* the increase / decrease call of the second strategy
deltaCall(u) ==
  LET sub == u.bnOld - u.bnNew
  IN IF sub >= 0 THEN Call("decreaseApproval", sub)
     ELSE Call("increaseApproval", -sub)

Finish(u, outcome) ==
  [u EXCEPT !.pc = "done",
            !.returned = IF u.entry = "revoke" THEN "completed" ELSE outcome]

\* an exception leaves update: the promise of update is rejected with it
Throw(u, r) == Finish([u EXCEPT !.resp = Append(@, r)], r)

\* the tail of update without its wait for the transaction
AwaitTxSkipped(u, r, tx) ==
  [u EXCEPT !.pc = "done", !.tx = tx, !.resp = Append(@, r),
            !.log = Append(@, Call("loadData", 0)),
            !.returned = "completed"]

\* if (tx) await tx.wait(1)
AwaitTx(u, r, tx) ==
  [u EXCEPT !.pc = "wait", !.tx = tx, !.resp = Append(@, r),
            !.log = Append(@, Call("wait", 1))]

\* the tail of update when no call is in flight: tx is still undefined,
\* the wait is skipped and loadData is called
Reload(u, r) ==
  Finish([u EXCEPT !.resp = Append(@, r), !.log = Append(@, Call("loadData", 0))],
         "completed")

\* the direct approve answering Reverted followed by approve(0) at once
approveAnswersSkipDelta(u, r) ==
  IF r = "ok" THEN AwaitTx(u, r, u.log[Len(u.log)])
  ELSE IF r = Reverted
       THEN [u EXCEPT !.pc = "reset", !.resp = Append(@, r),
                      !.log = Append(@, Call("approve", 0))]
       ELSE Reload(u, r)

\* the direct approve answers: on Reverted (e1.code === -32000) the second
\* strategy is tried, any other error is caught and dropped
approveAnswers(u, r) ==
  IF r = "ok" THEN AwaitTx(u, r, u.log[Len(u.log)])
  ELSE IF r = Reverted
       THEN [u EXCEPT !.pc = "delta", !.resp = Append(@, r),
                      !.log = Append(@, deltaCall(u))]
       ELSE Reload(u, r)

\* the increase / decrease call with every error taken for Reverted
deltaAnswersAnyError(u, r) ==
  IF r = "ok" THEN AwaitTx(u, r, u.log[Len(u.log)])
  ELSE [u EXCEPT !.pc = "reset", !.resp = Append(@, r),
                 !.log = Append(@, Call("approve", 0))]

\* the increase / decrease call answers: on Reverted (e2.code === -32000) the
\* third strategy starts with approve(0), any other error is caught and dropped
deltaAnswers(u, r) ==
  IF r = "ok" THEN AwaitTx(u, r, u.log[Len(u.log)])
  ELSE IF r = Reverted
       THEN [u EXCEPT !.pc = "reset", !.resp = Append(@, r),
                      !.log = Append(@, Call("approve", 0))]
       ELSE Reload(u, r)

\* approve(0) followed at once by the final approve, with no wait between
resetAnswersNoWait(u, r) ==
  IF r = "ok"
  THEN [u EXCEPT !.pc = "approve2", !.tx = u.log[Len(u.log)],
                 !.resp = Append(@, r), !.log = Append(@, Call("approve", u.bnNew))]
  ELSE Throw(u, r)

\* approve(0) answers: its transaction is waited for; an error is not caught
resetAnswers(u, r) ==
  IF r = "ok"
  THEN [u EXCEPT !.pc = "resetWait", !.tx = u.log[Len(u.log)],
                 !.resp = Append(@, r), !.log = Append(@, Call("wait", 1))]
  ELSE Throw(u, r)

\* the wait for approve(0) answers: the final approve is issued
resetWaitAnswers(u, r) ==
  IF r = "ok"
  THEN [u EXCEPT !.pc = "approve2", !.resp = Append(@, r),
                 !.log = Append(@, Call("approve", u.bnNew))]
  ELSE Throw(u, r)

\* the final approve of the third strategy answers
approve2Answers(u, r) ==
  IF r = "ok" THEN AwaitTx(u, r, u.log[Len(u.log)])
  ELSE Throw(u, r)

\* the last wait answers: loadData is called
waitAnswers(u, r) ==
  IF r = "ok" THEN Reload(u, r)
  ELSE Throw(u, r)

\* the continuation of update when the call or wait it awaits answers r
updateStep(u, r) ==
  CASE u.pc = "approve" -> approveAnswers(u, r)
    [] u.pc = "delta" -> deltaAnswers(u, r)
    [] u.pc = "reset" -> resetAnswers(u, r)
    [] u.pc = "resetWait" -> resetWaitAnswers(u, r)
    [] u.pc = "approve2" -> approve2Answers(u, r)
    [] u.pc = "wait" -> waitAnswers(u, r)

Responses(u) == IF u.pc \in {"wait", "resetWait"} THEN WaitResponses ELSE CallResponses

InFlight(u) == u.pc \notin {"idle", "done"}

\* the token contract's effect of a mined transaction on the allowance cur
mined(tx, cur) ==
  CASE tx.op = "approve" -> tx.arg
    [] tx.op = "increaseApproval" -> cur + tx.arg
    [] tx.op = "decreaseApproval" -> IF tx.arg > cur THEN 0 ELSE cur - tx.arg

\* the onChange handler of the NewAllowance input
onChange(allowance, value) == [allowance EXCEPT !.newAllowance = value]

\* what the user types into the NewAllowance input
Texts == {<<"0">>, <<"1", ".", "5">>}

Rendered == mounted /\ ~state.loading

Edit(i, value) ==
  /\ Rendered
  /\ i \in 1..Len(state.allowances)
  /\ state.allowances[i].newAllowance # value
  /\ state' = [state EXCEPT !.allowances[i] = onChange(state.allowances[i], value)]
  /\ UNCHANGED <<token, inputAddress, ledger, runs, upd, twin, mounted, obs, cnt>>

\* a click on the Revoke or the Update button of allowance i; the buttons
\* exist once the allowances are rendered and are enabled for the signer's
\* own address.  The twin is update called on the same allowance with "0"
\* typed into its input.
Click(entry, i) ==
  /\ Rendered
  /\ i \in 1..Len(state.allowances)
  /\ inputAddress = signerAddress
  /\ token # NoToken
  /\ ~InFlight(upd)
  /\ cnt.updates < MaxUpdates
  /\ LET a == state.allowances[i]
     IN /\ upd' = updateStart(entry, IF entry = "revoke" THEN revoke(a) ELSE a, token)
        /\ twin' = IF entry = "revoke"
                   THEN updateStart("update", onChange(a, <<"0">>), token)
                   ELSE Idle
        /\ obs' = [spender |-> a.spender,
                   ledger0 |-> ledger[signerAddress][a.spender],
                   ext |-> FALSE]
  /\ cnt' = [cnt EXCEPT !.updates = @ + 1]
  /\ UNCHANGED <<token, inputAddress, state, ledger, runs, mounted>>

\* the call or wait that update awaits answers r
UpdateStep(r) ==
  /\ InFlight(upd)
  /\ r \in Responses(upd)
  /\ upd' = updateStep(upd, r)
  /\ twin' = IF InFlight(twin) THEN updateStep(twin, r) ELSE twin
  /\ ledger' = IF upd.pc \in {"wait", "resetWait"} /\ r = "ok"
               THEN [ledger EXCEPT ![signerAddress][upd.allowance.spender] = mined(upd.tx, @)]
               ELSE ledger
  /\ LET l == upd'.log
         rl == loadData(inputAddress, state, runs)
     IN IF Len(l) > Len(upd.log) /\ l[Len(l)].op = "loadData"
        THEN state' = rl.state /\ runs' = rl.runs
        ELSE UNCHANGED <<state, runs>>
  /\ UNCHANGED <<token, inputAddress, mounted, obs, cnt>>

\* another party (the spender, or the owner through another wallet) changes
\* an allowance on the ledger
LedgerAmounts == {0, 3}

External(o, s, v) ==
  /\ cnt.external < MaxExternal
  /\ ledger[o][s] # v
  /\ ledger' = [ledger EXCEPT ![o][s] = v]
  /\ obs' = IF upd.pc # "idle" /\ o = signerAddress /\ s = obs.spender
            THEN [obs EXCEPT !.ext = TRUE] ELSE obs
  /\ cnt' = [cnt EXCEPT !.external = @ + 1]
  /\ UNCHANGED <<token, inputAddress, state, runs, upd, twin, mounted>>

-----------------------------------------------------------------------------
(* The component                                                           *)

RECURSIVE SeqsUpTo(_, _)
SeqsUpTo(S, n) == IF n = 0 THEN {<<>>}
                  ELSE LET shorter == SeqsUpTo(S, n - 1)
                       IN shorter \cup {Append(q, x) : q \in shorter, x \in S}

Topic(pad, addr) == [pad |-> pad, addr |-> addr]

\* the spenders of the token's events: the allowances the component reads
Watched == {hexDataSlice(token.approvals[i]) : i \in 1..Len(token.approvals)}

\* the tokens of the component model: two spenders, one of them in two events
Tokens ==
  [decimals : {0, 1}, totalSupply : {100},
   approvals : {<<Topic(0, 2), Topic(0, 1), Topic(0, 2)>>}]

InitState == [allowances |-> <<>>, icon |-> NoIcon, loading |-> TRUE]

\* the component after construction, whatever the token and the ledger
InitComponent ==
  /\ state = InitState
  /\ runs = <<>>
  /\ upd = Idle
  /\ twin = Idle
  /\ mounted = FALSE
  /\ obs = [spender |-> 1, ledger0 |-> 0, ext |-> FALSE]
  /\ cnt = [updates |-> 0, external |-> 0, changes |-> 0]

Init ==
  /\ token \in Tokens
  /\ inputAddress = signerAddress
  /\ ledger = [o \in Owners |-> [s \in Spenders |-> IF s = 1 THEN 3 ELSE 0]]
  /\ InitComponent

Next ==
  \/ componentDidMount
  \/ \E k \in 1..Len(runs) : \E i \in 1..Len(runs[k].approvals) : FetchResolves(k, i)
  \/ \E k \in 1..Len(runs) : \E i \in 1..Len(runs[k].approvals) : FetchFails(k, i)
  \/ \E i \in 1..Len(state.allowances) : \E value \in Texts : Edit(i, value)
  \/ \E i \in 1..Len(state.allowances) : \E entry \in {"revoke", "update"} : Click(entry, i)
  \/ \E r \in CallResponses \cup WaitResponses : UpdateStep(r)
  \/ \E s \in Watched : \E v \in LedgerAmounts : External(inputAddress, s, v)

Spec == Init /\ [][Next]_vars

-----------------------------------------------------------------------------
(* The update protocol: claims C1 to C7                                    *)

SetOps == {"approve", "increaseApproval", "decreaseApproval"}
DeltaOps == {"increaseApproval", "decreaseApproval"}

Started(u) == u.pc # "idle"
Ended(u) == u.pc = "done"

\* the positions of the log that hold a call with one of the names ops
At(u, ops) == {i \in 1..Len(u.log) : u.log[i].op \in ops}

\* the positions of the log whose call or wait was answered with r
Answered(u, r) == {i \in 1..Len(u.resp) : u.resp[i] = r}

\* update ran to its end by one of its strategies: the last issued change
\* was confirmed
Succeeded(u) ==
  /\ Ended(u)
  /\ u.tx # NoTx
  /\ u.log[Len(u.log)].op = "loadData"
  /\ u.resp[Len(u.resp)] = "ok"

\* C1: when the ledger allowance of the spender equals the allowance's
\* current amount as update is invoked, no other party changes it during the
\* update, and update succeeds by one of its three strategies, the ledger
\* allowance of the spender is the new amount when update has completed.
C1_UpdatePostcondition ==
  (Succeeded(upd) /\ obs.ledger0 = upd.bnOld /\ ~obs.ext)
    => ledger[signerAddress][upd.allowance.spender] = upd.bnNew

\* C1 witness: update succeeded by the increase / decrease strategy, towards
\* an amount other than the current one
C1_Witness ==
  /\ Succeeded(upd) /\ obs.ledger0 = upd.bnOld /\ ~obs.ext
  /\ upd.tx.op \in DeltaOps
  /\ upd.bnNew # upd.bnOld

\* C2: the calls are issued in the order approve(new), increase / decrease,
\* approve(0), approve(new); the increase / decrease call only after a
\* Reverted direct approve, approve(0) only after a Reverted increase /
\* decrease call; and when the third strategy succeeds the issued sequence
\* is approve(new), delta, approve(0), wait, approve(new), then one loadData.
C2_FallbackOrder ==
  Started(upd) =>
    /\ upd.log[1] = Call("approve", upd.bnNew)
    /\ At(upd, DeltaOps) \subseteq {2}
    /\ At(upd, DeltaOps) # {} => upd.resp[1] = Reverted /\ upd.log[2] = deltaCall(upd)
    /\ At(upd, {"approve"}) \subseteq {1, 3, 5}
    /\ 3 \in At(upd, {"approve"}) =>
         /\ upd.resp[1] = Reverted /\ upd.resp[2] = Reverted
         /\ 2 \in At(upd, DeltaOps)
         /\ upd.log[3] = Call("approve", 0)
    /\ 5 \in At(upd, {"approve"}) =>
         /\ 3 \in At(upd, {"approve"})
         /\ upd.log[4] = Call("wait", 1)
         /\ upd.log[5] = Call("approve", upd.bnNew)
    /\ (Succeeded(upd) /\ 3 \in At(upd, {"approve"})) =>
         /\ SubSeq(upd.log, 1, 5) =
              <<Call("approve", upd.bnNew), deltaCall(upd), Call("approve", 0),
                Call("wait", 1), Call("approve", upd.bnNew)>>
         /\ At(upd, SetOps) = {1, 2, 3, 5}
         /\ At(upd, {"loadData"}) = {Len(upd.log)}

\* C2 witness: the first two strategies reverted, the third one succeeded
C2_Witness ==
  /\ Succeeded(upd)
  /\ upd.resp[1] = Reverted /\ upd.resp[2] = Reverted
  /\ upd.bnNew # 0 /\ upd.bnNew # upd.bnOld

\* C3: once the direct approve or the increase / decrease call has failed
\* with an error other than Reverted, no further authorization-setting call
\* is issued; after such a failure of the direct approve the invocation has
\* issued exactly one authorization-setting call.
C3_EarlyFatalAbort ==
  /\ \A i \in {1, 2} \cap Answered(upd, "Other") :
       \A j \in At(upd, SetOps) : j <= i
  /\ 1 \in Answered(upd, "Other") => At(upd, SetOps) = {1}

\* C3 witness: the increase / decrease call failed with Other and update ended
C3_Witness == Ended(upd) /\ 2 \in Answered(upd, "Other")

\* C4 (as claimed): when a call of the chain has failed with an error other
\* than Reverted, the command the user started ends by delivering that error
\* to its caller.
C4_FatalPropagates ==
  (Ended(upd) /\ Answered(upd, "Other") # {}) => upd.returned = "Other"

\* C5 (as claimed): when update ends and no change was confirmed, whether
\* the chain was exhausted or cut short by an error other than Reverted,
\* loadData was not called.
C5_NoRefreshOnFailure ==
  (Ended(upd) /\ At(upd, {"wait"}) \cap Answered(upd, "ok") = {})
    => At(upd, {"loadData"}) = {}

\* C6 (as claimed): in an invocation in which a call succeeded, loadData is
\* called exactly once, after the wait for the last issued change.
C6_ConfirmThenOneRefresh ==
  (Ended(upd) /\ At(upd, SetOps) \cap Answered(upd, "ok") # {})
    => /\ Cardinality(At(upd, {"loadData"})) = 1
       /\ upd.log[Len(upd.log) - 1] = Call("wait", 1)
       /\ upd.resp[Len(upd.log) - 1] = "ok"

\* C6 (amended): loadData is called at most once per invocation, as the last
\* thing; when a change was issued, loadData is called only after the wait
\* for the last issued change has answered; and it is called exactly once
\* when the last issued call succeeded and the wait for it completed.
C6_RefreshOnlyAfterConfirm ==
  Started(upd) =>
    /\ At(upd, {"loadData"}) \in {{}, {Len(upd.log)}}
    /\ (At(upd, {"loadData"}) # {} /\ upd.tx # NoTx) =>
         LET n == Len(upd.log)
         IN /\ n >= 3
            /\ upd.log[n - 1] = Call("wait", 1) /\ upd.resp[n - 1] = "ok"
            /\ upd.log[n - 2] = upd.tx /\ upd.resp[n - 2] = "ok"
            /\ \A j \in At(upd, SetOps) : j <= n - 2
    /\ (Ended(upd) /\ upd.tx # NoTx) =>
         LET m == CHOOSE j \in At(upd, SetOps) : \A k \in At(upd, SetOps) : k <= j
         IN (m \in Answered(upd, "ok") /\ (m + 1) \in Answered(upd, "ok"))
              => Cardinality(At(upd, {"loadData"})) = 1

\* C6 witness: a change was issued and confirmed, and loadData was called
C6_Witness == Succeeded(upd) /\ upd.tx.op = "approve" /\ Len(upd.log) = 3

\* C7: revoke issues the calls, waits and loadData that update issues for the
\* same allowance with "0" typed in, when both get the same answers.
C7_RevokeIsUpdateZero ==
  (Started(upd) /\ upd.entry = "revoke") =>
    /\ twin.log = upd.log
    /\ twin.resp = upd.resp
    /\ twin.pc = upd.pc

\* C7 witness: revoke was clicked on an allowance whose input held another
\* text than "0", and has issued its second call
C7_Witness ==
  /\ Started(upd) /\ upd.entry = "revoke" /\ Len(upd.log) >= 2
  /\ \E i \in 1..Len(state.allowances) :
       /\ state.allowances[i].spender = upd.allowance.spender
       /\ state.allowances[i].allowance = upd.allowance.allowance
       /\ state.allowances[i].newAllowance # <<"0">>

-----------------------------------------------------------------------------
(* Discovery on its own: loadData applied to bounded inputs                *)

\* event sequences over two addresses, with every high-byte value
InitDedup ==
  /\ token \in [decimals : {0}, totalSupply : {100},
                approvals : SeqsUpTo([pad : 0..MaxPad, addr : {1, 2}], MaxEventsD)]
  /\ ledger = [o \in Owners |-> [s \in Spenders |-> s + 1]]

\* amounts on both sides of half a thousandth of a token, for every decimals
FilterAmounts == {0, 1, 4, 5, 49, 50, 499, 500}

InitFilter ==
  /\ token \in [decimals : 0..MaxDecimalsD, totalSupply : {3, 1000},
                approvals : {<<Topic(0, 1), Topic(0, 2)>>}]
  /\ \E a \in FilterAmounts : \E b \in FilterAmounts :
       ledger = [o \in Owners |->
                   [s \in Spenders |-> IF s = 1 THEN a ELSE IF s = 2 THEN b ELSE 0]]

\* one event per spender, amounts that compare differently as text
SortAmounts == {5, 50, 100}

InitSort ==
  /\ token = [decimals |-> 0, totalSupply |-> 1000,
              approvals |-> [i \in 1..NumSpenders |-> Topic(0, i)]]
  /\ ledger \in [Owners -> [Spenders -> SortAmounts]]
  /\ ledger["bob"] = ledger["alice"]

InitDiscovery ==
  /\ InitDedup \/ InitFilter \/ InitSort
  /\ inputAddress = signerAddress
  /\ InitComponent

NextDiscovery ==
  \/ componentDidMount
  \/ \E k \in 1..Len(runs) : \E i \in 1..Len(runs[k].approvals) : FetchResolves(k, i)
  \/ \E k \in 1..Len(runs) : \E i \in 1..Len(runs[k].approvals) : FetchFails(k, i)

SpecDiscovery == InitDiscovery /\ [][NextDiscovery]_vars

\* the spenders of a sequence of topics or of allowances
SpendersOf(q) == {hexDataSlice(q[i]) : i \in 1..Len(q)}

\* the position at which address a occurs first in the token's events
FirstAt(a) ==
  CHOOSE i \in 1..Len(token.approvals) :
    /\ hexDataSlice(token.approvals[i]) = a
    /\ \A j \in 1..(i - 1) : hexDataSlice(token.approvals[j]) # a

Loaded == mounted /\ ~state.loading

\* C8 (as claimed): a discovery run holds at most one entry per spender
\* address, before sorting in the order in which the addresses occur first
\* in the events, and the resulting state holds one allowance per address.
C8_OnePerSpender ==
  /\ \A i \in 1..Len(state.allowances) : \A j \in 1..Len(state.allowances) :
       i # j => state.allowances[i].spender # state.allowances[j].spender
  /\ \A k \in 1..Len(runs) :
       LET q == runs[k].approvals
       IN /\ \A i \in 1..Len(q) : \A j \in 1..Len(q) :
               i < j => /\ hexDataSlice(q[i]) # hexDataSlice(q[j])
                        /\ FirstAt(hexDataSlice(q[i])) < FirstAt(hexDataSlice(q[j]))
          /\ SpendersOf(q) = SpendersOf(token.approvals)

\* whether amount / 10^decimals rounds to zero at three decimal places
RoundsToZero(amount, tok) == 2000 * amount < Pow10(tok.decimals)

\* C9 (as claimed): a spender is left out of the result exactly when its
\* amount divided by 10^decimals rounds to zero at three decimal places.
C9_NearZeroFilter ==
  Loaded =>
    \A a \in SpendersOf(token.approvals) :
      (a \notin {state.allowances[i].spender : i \in 1..Len(state.allowances)})
        <=> RoundsToZero(ledger[inputAddress][a], token)

\* C9 (amended): a spender is left out of the result exactly when its amount
\* does not exceed the total supply and, divided by 10^decimals, rounds to
\* zero at three decimal places; the allowances kept carry the amount read.
C9_NearZeroFilterCapped ==
  /\ Loaded =>
       \A a \in SpendersOf(token.approvals) :
         LET amount == ledger[inputAddress][a]
             kept == {i \in 1..Len(state.allowances) : state.allowances[i].spender = a}
         IN /\ (kept = {}) <=> (amount <= token.totalSupply /\ RoundsToZero(amount, token))
            /\ \A i \in kept : bigNumberify(state.allowances[i].allowance) = amount
  /\ \A k \in 1..Len(runs) : \A i \in 1..Len(runs[k].res) :
       LET amount == ledger[runs[k].owner][hexDataSlice(runs[k].approvals[i])]
       IN runs[k].res[i] = undefined
            => (amount <= token.totalSupply /\ RoundsToZero(amount, token))

\* C9 witness: of two spenders, one below and one at half a thousandth of a
\* token; the first is left out and the second is kept
C9_Witness ==
  /\ Loaded
  /\ token.decimals = 4
  /\ ledger[inputAddress][1] = 4 /\ ledger[inputAddress][2] = 5
  /\ token.totalSupply >= 5
  /\ Len(state.allowances) = 1 /\ state.allowances[1].spender = 2

\* the position of spender a among the deduplicated events
DedupAt(a) ==
  LET q == dedup(token.approvals, 1)
  IN CHOOSE i \in 1..Len(q) : hexDataSlice(q[i]) = a

\* C10: the allowances of the state are in descending order of their amount
\* compared as integers, and two allowances of equal amount are in the order
\* of the deduplicated events.
C10_SortedDescendingStable ==
  \A i \in 1..Len(state.allowances) : \A j \in 1..Len(state.allowances) :
    i < j =>
      LET x == bigNumberify(state.allowances[i].allowance)
          y == bigNumberify(state.allowances[j].allowance)
      IN \/ x > y
         \/ /\ x = y
            /\ \/ DedupAt(state.allowances[i].spender) < DedupAt(state.allowances[j].spender)
               \/ state.allowances[i].spender = state.allowances[j].spender

\* C10 witness: amounts 100, 50, 100 are loaded as 100, 100, 50 with the two
\* equal ones in the order of their events
C10_Witness ==
  /\ Loaded
  /\ Len(state.allowances) = 3
  /\ ledger[inputAddress][1] = 100 /\ ledger[inputAddress][2] = 50
  /\ ledger[inputAddress][3] = 100
  /\ state.allowances[1].spender = 1
  /\ state.allowances[2].spender = 3
  /\ state.allowances[3].spender = 2

-----------------------------------------------------------------------------
(* Parsing the typed text: fromFloat applied to every text up to a length  *)

\* the characters the user types
Alphabet == {"0", "1", "5", "."}

\* a key stroke in the NewAllowance input of allowance i: a character is
\* appended to its text
Type(i, c) ==
  /\ ~Started(upd)
  /\ i \in 1..Len(state.allowances)
  /\ Len(state.allowances[i].newAllowance) < MaxTextLen
  /\ Edit(i, Append(state.allowances[i].newAllowance, c))

\* the last character of the text is erased
Erase(i) ==
  /\ ~Started(upd)
  /\ i \in 1..Len(state.allowances)
  /\ Len(state.allowances[i].newAllowance) > 0
  /\ Edit(i, SubSeq(state.allowances[i].newAllowance, 1,
                    Len(state.allowances[i].newAllowance) - 1))

InitParse ==
  /\ token \in [decimals : {0, 1, 2}, totalSupply : {100},
                approvals : {<<Topic(0, 1)>>}]
  /\ inputAddress = signerAddress
  /\ ledger = [o \in Owners |-> [s \in Spenders |-> 3]]
  /\ InitComponent

NextParse ==
  \/ componentDidMount
  \/ \E k \in 1..Len(runs) : \E i \in 1..Len(runs[k].approvals) : FetchResolves(k, i)
  \/ \E i \in 1..Len(state.allowances) : \E c \in Alphabet : Type(i, c)
  \/ \E i \in 1..Len(state.allowances) : Erase(i)
  \/ \E i \in 1..Len(state.allowances) : Click("update", i)

SpecParse == InitParse /\ [][NextParse]_vars

Zeros(n) == [i \in 1..n |-> "0"]

Points(s) == {i \in 1..Len(s) : s[i] = "."}

\* what the claim says of the result r of parsing text s with d decimals
ParsedAsClaimed(s, d, r) ==
  IF Points(s) = {} THEN r = s \o Zeros(d)
  ELSE IF Cardinality(Points(s)) > 1 THEN r = <<"0">>
  ELSE LET k == CHOOSE i \in Points(s) : TRUE
           whole == SubSeq(s, 1, k - 1)
           frac == SubSeq(s, k + 1, Len(s))
       IN /\ Len(frac) <= d => r = whole \o frac \o Zeros(d - Len(frac))
          /\ Len(frac) > d => r = whole \o SubSeq(frac, 1, d)
          /\ bigNumberify(r) =
               (bigNumberify(whole \o frac) * Pow10(d)) \div Pow10(Len(frac))

\* C11: fromFloat returns the digits of the text scaled by 10^decimals: a
\* text without a point is followed by decimals zeros, a fraction of at most
\* decimals digits is padded to decimals digits, a longer one is cut (not
\* rounded) to decimals digits, and a text with several points yields "0";
\* update approves the number these digits spell.
C11_InputParsing ==
  /\ \A i \in 1..Len(state.allowances) :
       LET s == state.allowances[i].newAllowance
       IN ParsedAsClaimed(s, token.decimals, fromFloat(s, token))
  /\ Started(upd) =>
       LET s == upd.allowance.newAllowance
       IN /\ ParsedAsClaimed(s, token.decimals, fromFloat(s, token))
          /\ upd.bnNew = bigNumberify(fromFloat(s, token))
          /\ upd.log[1] = Call("approve", upd.bnNew)

\* C11 witness: "1.55" typed for a token of one decimal is approved as 15
C11_Witness ==
  /\ Started(upd)
  /\ upd.allowance.newAllowance = <<"1", ".", "5", "5">>
  /\ token.decimals = 1
  /\ upd.bnNew = 15

-----------------------------------------------------------------------------
(* Display: formatAllowance applied to the amounts of the ledger           *)

FormatAmounts == {0, 1, 5, 12, 13, 996, 999, 1000, 1234}

InitFormat ==
  /\ token \in [decimals : 0..MaxDecimalsD, totalSupply : {12, 999, 1000},
                approvals : {<<Topic(0, 1)>>}]
  /\ inputAddress = signerAddress
  /\ \E a \in FormatAmounts :
       ledger = [o \in Owners |-> [s \in Spenders |-> IF s = 1 THEN a ELSE 0]]
  /\ InitComponent

SpecFormat == InitFormat /\ [][NextDiscovery]_vars

\* the amounts formatAllowance is applied to by the run of the owner
Amounts == {ledger[inputAddress][hexDataSlice(token.approvals[i])] :
              i \in 1..Len(token.approvals)}

toDisplay(amount) == formatAllowance(NatToStr(amount), token)

IsNumber(s) == \A i \in 1..Len(s) : \E j \in 1..10 : Digits[j] = s[i]

\* bigNumberify throws for a string that is no number
Thrown == <<"throws">>

fromText(text) == fromFloat(text, token)

\* toDisplay(fromText(toDisplay(amount)))
RoundTrip(amount) ==
  IF IsNumber(fromText(toDisplay(amount)))
  THEN formatAllowance(fromText(toDisplay(amount)), token)
  ELSE Thrown

\* C12 as stated: for every token and every amount the display of the amount
\* read back from the displayed text is the displayed text.
C12_RoundTrip == \A a \in Amounts : RoundTrip(a) = toDisplay(a)

\* C12: for every token and every amount that does not exceed totalSupply
\* and whose displayed text, read back, does not exceed totalSupply either,
\* the display of the amount read back from the displayed text is the
\* displayed text.
C12_RoundTripWithinSupply ==
  \A a \in Amounts :
    (a <= token.totalSupply
       /\ bigNumberify(fromText(toDisplay(a))) <= token.totalSupply)
    => /\ IsNumber(fromText(toDisplay(a)))
       /\ RoundTrip(a) = toDisplay(a)

\* C12 witness: 996 of a token with 4 decimals is shown as 0.100, read back
\* as 1000 and shown as 0.100 again
C12_Witness ==
  /\ Loaded
  /\ token.decimals = 4
  /\ token.totalSupply = 1000
  /\ Len(state.allowances) = 1
  /\ state.allowances[1].allowance = NatToStr(996)
  /\ bigNumberify(fromText(toDisplay(996))) = 1000
  /\ RoundTrip(996) = <<"0", ".", "1", "0", "0">>

\* the text is digits, a point and three digits, with no needless zero in front
IsFixed3(text) ==
  /\ Len(text) >= 5
  /\ text[Len(text) - 3] = "."
  /\ IsNumber(SubSeq(text, 1, Len(text) - 4))
  /\ IsNumber(SubSeq(text, Len(text) - 2, Len(text)))
  /\ text[1] = "0" => Len(text) = 5

\* the number of thousandths the text spells
Thousandths(text) ==
  bigNumberify(SubSeq(text, 1, Len(text) - 4) \o SubSeq(text, Len(text) - 2, Len(text)))

\* C13: formatAllowance returns "Unlimited" exactly when the amount exceeds
\* totalSupply; an amount up to totalSupply, the equal one included, is
\* shown as amount / 10^decimals with exactly three fractional digits, the
\* nearest such number.
C13_UnlimitedDisplay ==
  \A a \in Amounts :
    /\ toDisplay(a) = Unlimited <=> a > token.totalSupply
    /\ a <= token.totalSupply =>
         /\ IsFixed3(toDisplay(a))
         /\ 2 * (Thousandths(toDisplay(a)) * Pow10(token.decimals) - 1000 * a)
              <= Pow10(token.decimals)
         /\ 2 * (1000 * a - Thousandths(toDisplay(a)) * Pow10(token.decimals))
              <= Pow10(token.decimals)

\* C13 witness: the amount equal to totalSupply is shown as a number, the
\* next one as Unlimited
C13_Witness ==
  /\ Loaded
  /\ Len(state.allowances) = 1
  /\ \/ /\ state.allowances[1].allowance = NatToStr(token.totalSupply)
        /\ token.decimals = 2
        /\ toDisplay(token.totalSupply) = <<"1", "0", ".", "0", "0", "0">>
     \/ /\ state.allowances[1].allowance = NatToStr(token.totalSupply + 1)
        /\ toDisplay(token.totalSupply + 1) = Unlimited

-----------------------------------------------------------------------------
(* Discovery runs: mount, changes of the owner address, absent props       *)

\* the allowances of the two owners differ, and one of bob's is negligible
RunsLedger ==
  [o \in Owners |-> [s \in Spenders |->
     IF o = "alice" THEN (IF s = 1 THEN 3 ELSE 5)
     ELSE (IF s = 1 THEN 0 ELSE 7)]]

RunsToken == [decimals |-> 0, totalSupply |-> 100,
              approvals |-> <<Topic(0, 1), Topic(0, 2)>>]

InitRuns ==
  /\ token \in {NoToken, RunsToken}
  /\ inputAddress \in Owners \cup {NoAddress}
  /\ ledger = RunsLedger
  /\ InitComponent

NextRuns ==
  \/ componentDidMount
  \/ \E address \in Owners \cup {NoAddress} : componentDidUpdate(address)
  \/ \E k \in 1..Len(runs) : \E i \in 1..Len(runs[k].approvals) : FetchResolves(k, i)
  \/ \E k \in 1..Len(runs) : \E i \in 1..Len(runs[k].approvals) : FetchFails(k, i)

SpecRuns == InitRuns /\ [][NextRuns]_vars

\* C14 as stated: while a Discovery run is in flight loading is true, and
\* loading is false only when no run is in flight.
C14_LoadingWhileInFlight == runs # <<>> => state.loading

\* C14: loading is true from construction until the first Discovery run
\* completes and sets the state, and false from then on: it turns false only
\* in a step that completes a run and never turns true again, so a re-run
\* started by a change of the owner address (or by update) is in flight
\* with loading false.
C14_LoadingUntilFirstResult ==
  /\ [](~mounted => state.loading)
  /\ [][/\ ~state.loading => ~state'.loading
        /\ (state.loading /\ ~state'.loading) =>
             \/ Len(runs') < Len(runs)
             \/ dedup(token.approvals, 1) = <<>>]_vars

\* C14 witness: a run started by a change of the owner address is in flight
\* and loading is false
C14_Witness ==
  /\ ~state.loading
  /\ cnt.changes = 1
  /\ Len(runs) = 1
  /\ runs[1].owner = inputAddress
\* the spenders and amounts the component shows
Shown ==
  {<<state.allowances[i].spender, state.allowances[i].allowance>> :
     i \in 1..Len(state.allowances)}

\* the spenders of the token's events whose allowance granted by owner o is
\* not negligible, with that allowance
Complete(o) ==
  {<<a, NatToStr(ledger[o][a])>> :
     a \in {b \in Watched :
              formatAllowance(NatToStr(ledger[o][b]), token) # <<"0", ".", "0", "0", "0">>}}

\* the number of queries of the run that have not answered
Outstanding(run) == Cardinality({i \in 1..Len(run.res) : run.res[i] = pending})

\* C15: a run in which a spender's query fails leaves the component state as
\* it was, and the state is replaced in one step, by the step in which the
\* last outstanding query of a run answers, with the whole result of that
\* run: the component never shows a partial result set.
C15_StaleNeverPartial ==
  /\ [](Loaded => \E o \in Owners : Shown = Complete(o))
  /\ [][state' # state =>
          \E k \in 1..Len(runs) :
            /\ runs' = RemoveAt(runs, k)
            /\ Outstanding(runs[k]) = 1
            /\ Shown' = Complete(runs[k].owner)
            /\ ~state'.loading]_vars

\* C15 witness: the run started at mount has failed; the component is in
\* its initial state and nothing is in flight
C15_Witness ==
  /\ mounted
  /\ token # NoToken
  /\ inputAddress # NoAddress
  /\ cnt.changes = 0
  /\ runs = <<>>
  /\ state = InitState

-----------------------------------------------------------------------------
(* Discovery with a reverse-name lookup that can fail                      *)

InitLookup ==
  /\ token \in [decimals : {0, 1, 2}, totalSupply : {100},
                approvals : {<<Topic(0, 1), Topic(0, 2)>>,
                             <<Topic(0, 3), Topic(0, 2), Topic(0, 1)>>}]
  /\ inputAddress \in Owners
  /\ \E a \in {0, 3} :
       ledger = [o \in Owners |-> [s \in Spenders |->
                   IF o = "alice" THEN (IF s = 1 THEN a ELSE 5)
                   ELSE (IF s = 1 THEN 0 ELSE 7)]]
  /\ InitComponent

NextLookup ==
  \/ componentDidMount
  \/ \E k \in 1..Len(runs) : \E i \in 1..Len(runs[k].approvals) : FetchResolves(k, i)
  \/ \E k \in 1..Len(runs) : \E i \in 1..Len(runs[k].approvals) : LookupFails(k, i)

SpecLookup == InitLookup /\ [][NextLookup]_vars

\* C16 (as claimed): a reverse-name or application-name lookup that fails
\* or finds no name never aborts the run: with every allowance query
\* answered the run completes, and every spender that survives the filter
\* is in the result, identified at least by its raw address.
C16_IdentityBestEffort ==
  (mounted /\ runs = <<>>) =>
    /\ ~state.loading
    /\ \A p \in Complete(inputAddress) :
         \E i \in 1..Len(state.allowances) :
           /\ state.allowances[i].spender = p[1]
           /\ state.allowances[i].allowance = p[2]

-----------------------------------------------------------------------------
(* The strategy chain for new amounts above, below and equal to the old    *)

InitDelta ==
  /\ token \in [decimals : {0, 1}, totalSupply : {100},
                approvals : {<<Topic(0, 1)>>}]
  /\ inputAddress = signerAddress
  /\ \E a \in {1, 3, 15} :
       ledger = [o \in Owners |-> [s \in Spenders |-> IF s = 1 THEN a ELSE 0]]
  /\ InitComponent

NextDelta ==
  \/ componentDidMount
  \/ \E k \in 1..Len(runs) : \E i \in 1..Len(runs[k].approvals) : FetchResolves(k, i)
  \/ \E i \in 1..Len(state.allowances) : \E value \in Texts : Edit(i, value)
  \/ \E i \in 1..Len(state.allowances) : \E entry \in {"revoke", "update"} : Click(entry, i)
  \/ \E r \in CallResponses \cup WaitResponses : UpdateStep(r)

SpecDelta == InitDelta /\ [][NextDelta]_vars

\* newAmount - currentAmount of the invocation
delta(u) == u.bnNew - u.bnOld

\* C17 as stated: the second strategy issues increase with argument delta
\* whenever delta >= 0, zero included, and decrease with argument |delta|
\* whenever delta < 0.
C17_DeltaDirection ==
  \A j \in At(upd, DeltaOps) :
    /\ delta(upd) >= 0 => upd.log[j] = Call("increaseApproval", delta(upd))
    /\ delta(upd) < 0 => upd.log[j] = Call("decreaseApproval", -delta(upd))
    /\ upd.log[j].arg >= 0

\* C17: the second strategy issues increase with argument delta whenever
\* delta > 0 and decrease with argument |delta| whenever delta <= 0, so
\* equal amounts give a decrease by zero; the argument is never negative,
\* and the call follows a direct approve that was answered with -32000.
C17_DeltaDirectionZeroDecreases ==
  /\ \A j \in At(upd, DeltaOps) :
       /\ delta(upd) > 0 => upd.log[j] = Call("increaseApproval", delta(upd))
       /\ delta(upd) <= 0 => upd.log[j] = Call("decreaseApproval", -delta(upd))
       /\ upd.log[j].arg >= 0
       /\ j = 2
  /\ (Len(upd.resp) >= 1 /\ upd.resp[1] = Reverted) => 2 \in At(upd, DeltaOps)

\* C17 witness: the new amount equals the current one, the direct approve
\* was refused with -32000, and a decrease by zero was issued
C17_Witness ==
  /\ Started(upd)
  /\ upd.bnOld > 0
  /\ delta(upd) = 0
  /\ Len(upd.log) >= 2
  /\ upd.resp[1] = Reverted
  /\ upd.log[2] = Call("decreaseApproval", 0)

\* C18: in the third strategy the final approve(newAmount) is issued only
\* after approve(0) has succeeded and its wait for one confirmation has
\* completed, so the ledger holds 0 when it is issued; when approve(0) fails
\* or its confirmation fails, no further approve is issued and update ends
\* with that error.
C18_ResetThenApprove ==
  /\ \A j \in At(upd, {"approve"}) :
       j > 3 =>
         /\ j = 5
         /\ upd.log[3] = Call("approve", 0) /\ upd.resp[3] = "ok"
         /\ upd.log[4] = Call("wait", 1) /\ upd.resp[4] = "ok"
         /\ upd.log[5] = Call("approve", upd.bnNew)
  /\ upd.pc = "approve2" => ledger[signerAddress][upd.allowance.spender] = 0
  /\ \A j \in {3, 4} :
       (Len(upd.resp) >= j /\ upd.log[3].op = "approve" /\ upd.resp[j] # "ok") =>
         /\ Len(upd.log) = j
         /\ Ended(upd)
         /\ upd.entry = "update" => upd.returned = upd.resp[j]

\* C18 witness: approve(0) was confirmed and the final approve is awaited
C18_Witness ==
  /\ upd.pc = "approve2"
  /\ upd.bnNew > 0
  /\ upd.log[3] = Call("approve", 0)
  /\ upd.resp[4] = "ok"
  /\ upd.log[5] = Call("approve", upd.bnNew)

-----------------------------------------------------------------------------
(* loadData while the token or the owner address is absent                 *)

\* the step calls loadData: componentDidMount or componentDidUpdate with
\* another inputAddress
LoadDataCalled == mounted' # mounted \/ inputAddress' # inputAddress

\* C19: when loadData is called while the owner address or the token is
\* absent it starts no run (no allowance query, no lookup) and leaves the
\* whole component state as it was; no run in flight belongs to an absent
\* owner, and without a token the component stays in its initial state.
C19_NotReadyNoOp ==
  /\ [](\A k \in 1..Len(runs) : runs[k].owner # NoAddress)
  /\ [](token = NoToken => (runs = <<>> /\ state = InitState))
  /\ [][(LoadDataCalled /\ (token = NoToken \/ inputAddress' = NoAddress)) =>
          (runs' = runs /\ state' = state)]_vars

\* C19 witness: the owner address was taken away while the run started at
\* mount was in flight; no second run was started
C19_Witness ==
  /\ mounted
  /\ token # NoToken
  /\ inputAddress = NoAddress
  /\ cnt.changes = 1
  /\ Len(runs) = 1
  /\ \A i \in 1..Len(runs[1].res) : runs[1].res[i] = pending

-----------------------------------------------------------------------------
(* Overlapping Discovery runs, every query answering                       *)

InitOverlap ==
  /\ token \in [decimals : {0, 1}, totalSupply : {100},
                approvals : {<<Topic(0, 1), Topic(0, 2)>>}]
  /\ inputAddress \in Owners
  /\ ledger = RunsLedger
  /\ InitComponent

NextOverlap ==
  \/ componentDidMount
  \/ \E address \in Owners : componentDidUpdate(address)
  \/ \E k \in 1..Len(runs) : \E i \in 1..Len(runs[k].approvals) : FetchResolves(k, i)

SpecOverlap == InitOverlap /\ [][NextOverlap]_vars

\* C20 (as claimed): once every run in flight has completed, the allowances
\* shown are the result of the run started last, which was computed for the
\* current owner address, and not the result of an earlier run that
\* finished later.
C20_LatestRunWins ==
  (mounted /\ runs = <<>>) => (Loaded /\ Shown = Complete(inputAddress))

====
